---- MODULE Spec2Model ----
(***************************************************************************)
(* A model of the analytics pipeline of src/process_data.py: process_data  *)
(* reads a CSV file, drops incomplete rows, builds the statistics document *)
(* section by section (generate_insights), asks the text-generation        *)
(* collaborator for a narrative (or synthesizes one) and prints one JSON   *)
(* document.                                                               *)
(*                                                                         *)
(* Conventions.  A Python dict is a function from its keys; the empty dict *)
(* is EmptyDict.  A float is a record [nan, num, den] (an exact rational,  *)
(* den > 0, or NaN); a value obtained through a square root is kept as its *)
(* square.  A well-formed 'DD-MM-YYYY HH:MM' text is [ok |-> TRUE, day,    *)
(* hour] with day an ordinal day number; any other text is BadDate.  The   *)
(* libraries the code calls (Prophet, statsmodels, OpenAI, json) are       *)
(* environment: each call returns one of the outcomes the library can      *)
(* produce, chosen nondeterministically from a bounded set.                *)
(***************************************************************************)
EXTENDS Integers, Sequences, FiniteSets, TLC

VARIABLES
    file,              \* the uploaded file: readable or not, header, raw rows
    df,                \* the cleaned row-set (after read_csv and dropna)
    pc,                \* position in process_data / generate_insights
    stats,             \* the statistics document under construction
    daily_sales,       \* forecast_sales: distinct transactions per day
    forecast_result,   \* forecast_sales: the record to return
    attempted,         \* forecast_sales: the tiers entered so far, in order
    raised,            \* the sections in which an exception has been raised
    analysis_results,  \* what generate_insights returned
    gpt,               \* what the text-generation collaborator did
    exc,               \* the exception process_data caught ("" when none)
    stdout,            \* the JSON documents printed on stdout, in order
    result             \* value returned by a directly applied function

vars == <<file, df, pc, stats, daily_sales, forecast_result, attempted, raised,
          analysis_results, gpt, exc, stdout, result>>

-----------------------------------------------------------------------------
(* Bounds of the model.                                                    *)

MaxRows == 2
MaxTxn == 2
MaxAssocRows == 4
MaxSupport == 2

(* Program constants.                                                      *)

forecast_periods == 30
MaWindow == 7
seasonal_periods == 7
TopPopular == 30
TopAssociated == 5
DefaultMinSupport == 10
SampleRows == 100
Quantiles == 5
MaxCatCols == 4
RareLimit == 10
TopCustomers == 10
NarratedAnchors == 5
NarratedAssociates == 3

-----------------------------------------------------------------------------
(* Generic helpers.                                                        *)

EmptyDict == [k \in {} |-> 0]

Range(s) == {s[i] : i \in DOMAIN s}

Min2(a, b) == IF a <= b THEN a ELSE b

Max2(a, b) == IF a >= b THEN a ELSE b

RECURSIVE SumSeq(_)
SumSeq(s) == IF s = <<>> THEN 0 ELSE Head(s) + SumSeq(Tail(s))

RECURSIVE SetToSeq(_)
SetToSeq(S) ==
    IF S = {} THEN <<>>
    ELSE LET x == CHOOSE y \in S : TRUE IN <<x>> \o SetToSeq(S \ {x})

(* The distinct values of s in order of first appearance.                  *)
Unique(s) ==
    LET first == {i \in DOMAIN s : \A j \in 1..(i - 1) : s[j] # s[i]}
    IN [k \in 1..Cardinality(first) |->
           s[CHOOSE i \in first : Cardinality({j \in first : j < i}) = k - 1]]

Count(s, v) == Cardinality({i \in DOMAIN s : s[i] = v})

Take(s, n) == SubSeq(s, 1, Min2(n, Len(s)))

(* Floats: exact rationals or NaN.                                         *)
NaN == [nan |-> TRUE, num |-> 0, den |-> 1]

Rat(n, d) == [nan |-> FALSE, num |-> n, den |-> d]

RatLess(a, b) == a.num * b.den < b.num * a.den

RatEq(a, b) == a.nan = b.nan /\ (a.nan \/ a.num * b.den = b.num * a.den)

(* numpy's round: to the nearest integer, halves to the even one.          *)
RoundHalfEven(n, d) ==
    LET q == n \div d
        r == n % d
    IN IF 2 * r < d THEN q
       ELSE IF 2 * r > d THEN q + 1
       ELSE IF q % 2 = 0 THEN q ELSE q + 1

(* Python's int(): truncation toward zero.                                 *)
Trunc(n, d) == IF n >= 0 THEN n \div d ELSE -((-n) \div d)

-----------------------------------------------------------------------------
(* The input file and pandas' read_csv / dropna / select_dtypes.           *)

NA == "NA"

BadDate == [ok |-> FALSE, day |-> 0, hour |-> 0]

Date(d, h) == [ok |-> TRUE, day |-> d, hour |-> h]

ColumnOrder == <<"Transaction", "Item", "date_time", "Qty">>

(* Further text columns a file may have: the two analyze_time_patterns     *)
(* looks for, and one no analyzer names.                                   *)
TagColumns == <<"period_day", "weekday_weekend", "Note">>

(* The placeholder a row holds for a column the file does not have.        *)
Absent ==
    [Transaction |-> 0, Item |-> "", date_time |-> BadDate, Qty |-> 0,
     period_day |-> "", weekday_weekend |-> "", Note |-> ""]

Row(t, item, stamp) ==
    [Absent EXCEPT !.Transaction = t, !.Item = item, !.date_time = stamp]

HasCol(d, c) == c \in Range(d.columns)

(* read_csv's dtype inference: a header-only file makes every column       *)
(* object; a column of integers is int64; a column whose every value is    *)
(* missing is float64; a column holding any text is object.                *)
InferDtype(rows, c) ==
    IF rows = <<>> THEN "object"
    ELSE IF c \in {"Transaction", "Qty"} THEN "int64"
    ELSE IF c = "Item" /\ \A i \in DOMAIN rows : rows[i].Item = NA THEN "float64"
    ELSE "object"

RowHasNA(d, r) == \E c \in Range(d.columns) : c = "Item" /\ r.Item = NA

read_csv(f) ==
    [columns |-> f.columns,
     dtypes  |-> [c \in Range(f.columns) |-> InferDtype(f.rows, c)],
     rows    |-> f.rows]

dropna(d) ==
    [d EXCEPT !.rows = SelectSeq(d.rows, LAMBDA r : ~RowHasNA(d, r))]

(* select_dtypes, in column order.                                         *)
NumericCols(d) ==
    SelectSeq(d.columns, LAMBDA c : d.dtypes[c] \in {"int64", "float64"})

ObjectCols(d) == SelectSeq(d.columns, LAMBDA c : d.dtypes[c] = "object")

Column(d, c) == [i \in DOMAIN d.rows |-> d.rows[i][c]]

(* pd.to_datetime(..., errors='coerce'): NaT for text that does not parse. *)
IsNaT(t) == ~t.ok

Parsed(d) == SelectSeq(d.rows, LAMBDA r : ~IsNaT(r.date_time))

(* Hours since the epoch of a parsed timestamp.                            *)
Stamp(t) == t.day * 24 + t.hour

-----------------------------------------------------------------------------
(* Descriptive statistics: generate_insights, lines 550-581.               *)

(* Insert the pair p = <<value, count>> behind every pair whose count is   *)
(* at least as large: a stable sort by descending count.                   *)
(* A stable sort by descending count: the place of an entry is the number  *)
(* of entries with a larger count, or an equal count and an earlier place.  *)
SortByCount(s) ==
    [k \in DOMAIN s |->
        s[CHOOSE i \in DOMAIN s :
            Cardinality({j \in DOMAIN s :
                \/ s[j][2] > s[i][2]
                \/ s[j][2] = s[i][2] /\ j < i}) = k - 1]]

(* Series.value_counts(): <<value, count>> by descending count, equal      *)
(* counts in order of first appearance.                                    *)
value_counts(xs) ==
    LET u == Unique(xs)
    IN SortByCount([i \in DOMAIN u |-> <<u[i], Count(xs, u[i])>>])

nunique(xs) == Cardinality(Range(xs))

SortAscending(s) ==
    [k \in DOMAIN s |->
        s[CHOOSE i \in DOMAIN s :
            Cardinality({j \in DOMAIN s :
                \/ s[j] < s[i]
                \/ s[j] = s[i] /\ j < i}) = k - 1]]

SumSq(xs) == SumSeq([i \in DOMAIN xs |-> xs[i] * xs[i]])

SumProd(xs, ys) == SumSeq([i \in DOMAIN xs |-> xs[i] * ys[i]])

Mean(xs) == IF xs = <<>> THEN NaN ELSE Rat(SumSeq(xs), Len(xs))

Median(xs) ==
    LET n == Len(xs)
        s == SortAscending(xs)
    IN IF n = 0 THEN NaN
       ELSE IF n % 2 = 1 THEN Rat(s[(n + 1) \div 2], 1)
       ELSE Rat(s[n \div 2] + s[n \div 2 + 1], 2)

(* Series.std(): the sample standard deviation (ddof = 1), NaN for fewer   *)
(* than two values.  The record holds the variance, the square of std.     *)
Std(xs) ==
    LET n == Len(xs)
    IN IF n <= 1 THEN NaN
       ELSE Rat(n * SumSq(xs) - SumSeq(xs) * SumSeq(xs), n * (n - 1))

SeqMin(xs) ==
    IF xs = <<>> THEN NaN
    ELSE Rat(CHOOSE v \in Range(xs) : \A w \in Range(xs) : v <= w, 1)

SeqMax(xs) ==
    IF xs = <<>> THEN NaN
    ELSE Rat(CHOOSE v \in Range(xs) : \A w \in Range(xs) : v >= w, 1)

NumericStats(xs) ==
    [mean |-> Mean(xs), median |-> Median(xs), std |-> Std(xs),
     min |-> SeqMin(xs), max |-> SeqMax(xs)]

(* value_counts().index[0] raises IndexError on a column without rows.     *)
CategoricalRaises(d) == ObjectCols(d) # <<>> /\ d.rows = <<>>

CategoricalStats(xs) ==
    [unique_values |-> nunique(xs), most_common |-> value_counts(xs)[1][1]]

(* DataFrame.corr(): Pearson's r, NaN when a column is constant or there   *)
(* are fewer than two rows.  The record holds the sign of r and r squared. *)
Pearson(xs, ys) ==
    LET n   == Len(xs)
        cxy == n * SumProd(xs, ys) - SumSeq(xs) * SumSeq(ys)
        vx  == n * SumSq(xs) - SumSeq(xs) * SumSeq(xs)
        vy  == n * SumSq(ys) - SumSeq(ys) * SumSeq(ys)
    IN IF n < 2 \/ vx = 0 \/ vy = 0
       THEN [nan |-> TRUE, sign |-> 0, num |-> 0, den |-> 1]
       ELSE [nan |-> FALSE,
             sign |-> IF cxy > 0 THEN 1 ELSE IF cxy < 0 THEN -1 ELSE 0,
             num |-> cxy * cxy, den |-> vx * vy]

Correlations(d) ==
    LET nc == Range(NumericCols(d))
    IN IF Len(NumericCols(d)) > 1
       THEN [a \in nc |-> [b \in nc |-> Pearson(Column(d, a), Column(d, b))]]
       ELSE EmptyDict

(* The three keys generate_insights fills before it calls the analyzers.   *)
BasicStats(d) ==
    [numeric_columns |->
        [c \in Range(NumericCols(d)) |-> NumericStats(Column(d, c))],
     categorical_columns |->
        [c \in Range(ObjectCols(d)) |-> CategoricalStats(Column(d, c))],
     correlations |-> Correlations(d)]

-----------------------------------------------------------------------------
(* analyze_time_patterns.                                                  *)

DayNames == <<"Monday", "Tuesday", "Wednesday", "Thursday", "Friday",
              "Saturday", "Sunday">>

MonthNames == <<"January", "February", "March", "April", "May", "June", "July",
                "August", "September", "October", "November", "December">>

(* The calendar is simplified: day ordinals, weeks of seven days starting  *)
(* on a Monday at ordinal 0 and months of 31 days.                         *)
day_name(t) == DayNames[(t.day % 7) + 1]

month_name(t) == MonthNames[((t.day \div 31) % 12) + 1]

(* groupby(key)['Transaction'].nunique().to_dict() over the rows whose key *)
(* is not missing.                                                         *)
BucketSize(rows, members) == Cardinality(members)

(* ['Transaction'].nunique() of one group: members are the positions of    *)
(* the group's rows.                                                       *)
BucketNunique(rows, members) == Cardinality({rows[i].Transaction : i \in members})

GroupNunique(rows, Key(_)) ==
    [k \in {Key(rows[i]) : i \in DOMAIN rows} |->
        BucketNunique(rows, {j \in DOMAIN rows : Key(rows[j]) = k})]

(* The returned dict, and whether an exception was raised (and caught):    *)
(* grouping by 'Transaction' raises KeyError when that column is missing.  *)
analyze_time_patterns(d) ==
    IF ~HasCol(d, "date_time") THEN [value |-> EmptyDict, raised |-> FALSE]
    ELSE IF \A i \in DOMAIN d.rows : IsNaT(d.rows[i].date_time)
    THEN [value |-> EmptyDict, raised |-> FALSE]
    ELSE IF ~HasCol(d, "Transaction") THEN [value |-> EmptyDict, raised |-> TRUE]
    ELSE LET rows == Parsed(d)
             base == [hourly  |-> GroupNunique(rows, LAMBDA r : r.date_time.hour),
                      daily   |-> GroupNunique(rows, LAMBDA r : day_name(r.date_time)),
                      monthly |-> GroupNunique(rows, LAMBDA r : month_name(r.date_time))]
             ww == IF HasCol(d, "weekday_weekend")
                   THEN "weekday_weekend" :>
                        GroupNunique(d.rows, LAMBDA r : r.weekday_weekend)
                   ELSE EmptyDict
             pd == IF HasCol(d, "period_day")
                   THEN "period_day" :> GroupNunique(d.rows, LAMBDA r : r.period_day)
                   ELSE EmptyDict
         IN [value |-> base @@ ww @@ pd, raised |-> FALSE]

-----------------------------------------------------------------------------
(* analyze_product_associations.                                           *)

(* The Transaction identifiers of the rows, ascending (groupby's order).   *)
TransactionIds(rows) == SortAscending(SetToSeq({rows[i].Transaction : i \in DOMAIN rows}))

ItemsOf(rows, t) ==
    LET sel == SelectSeq(rows, LAMBDA r : r.Transaction = t)
    IN [i \in DOMAIN sel |-> sel[i].Item]

(* popular_items[:30]: the items with count >= min_support, in             *)
(* value_counts order, cut to the first 30.                                *)
PopularItems(rows, min_support) ==
    LET vc  == value_counts([i \in DOMAIN rows |-> rows[i].Item])
        pop == SelectSeq(vc, LAMBDA p : p[2] >= min_support)
    IN Take([i \in DOMAIN pop |-> pop[i][1]], TopPopular)

RECURSIVE Concat(_)
Concat(ss) == IF ss = <<>> THEN <<>> ELSE Head(ss) \o Concat(Tail(ss))

RelatedRowsWithSelf(rows, item) ==
    LET ids == SelectSeq(TransactionIds(rows),
                         LAMBDA t : item \in Range(ItemsOf(rows, t)))
    IN Concat([i \in DOMAIN ids |-> ItemsOf(rows, ids[i])])

(* The other items of the transactions that contain item, one entry per    *)
(* row, transactions ascending and rows in file order.                     *)
RelatedRows(rows, item) ==
    LET ids == SelectSeq(TransactionIds(rows),
                         LAMBDA t : item \in Range(ItemsOf(rows, t)))
        all == Concat([i \in DOMAIN ids |-> ItemsOf(rows, ids[i])])
    IN SelectSeq(all, LAMBDA x : x # item)

(* sorted(related_items.items(), key=count, reverse=True)[:5]: Python's    *)
(* sort is stable, the dict keeps the order of first insertion.            *)
AssociatedWith(rows, item) == Take(value_counts(RelatedRows(rows, item)), TopAssociated)

analyze_product_associations(d, min_support) ==
    IF ~HasCol(d, "Item") \/ ~HasCol(d, "Transaction") THEN EmptyDict
    ELSE LET pop == PopularItems(d.rows, min_support)
             listed == {x \in Range(pop) : AssociatedWith(d.rows, x) # <<>>}
         IN [x \in listed |-> AssociatedWith(d.rows, x)]

-----------------------------------------------------------------------------
(* generate_correlation_matrix.                                            *)

(* The cells of the matrix.  A computed Cramer's V is kept symbolic, named  *)
(* by the ordered pair of columns whose contingency table it came from.    *)
One == [kind |-> "1.0", of |-> <<>>]

Zero == [kind |-> "0.0", of |-> <<>>]

NonFinite == [kind |-> "nan", of |-> <<>>]

Levels(d, c) == Cardinality(Range(Column(d, c)))

(* Lines 472-478: with n rows, r and k levels, rcorr - 1 is                *)
(* (r-1)(n-r)/(n-1) and kcorr - 1 likewise, so the division is by zero     *)
(* (numpy: a warning and a non-finite value, no exception) when n = 1 or   *)
(* a column has one level or n levels.                                     *)
Degenerate(d, c1, c2) ==
    LET n == Len(d.rows)
    IN n = 1 \/ Levels(d, c1) \in {1, n} \/ Levels(d, c2) \in {1, n}

(* Lines 466-482: the cell computed for the ordered pair (c1, c2); 0.0     *)
(* when the computation raised, which it does when scipy is missing.       *)
CramersV(d, c1, c2, scipy) ==
    IF ~scipy THEN Zero
    ELSE IF Degenerate(d, c1, c2) THEN NonFinite
    ELSE [kind |-> "V", of |-> <<c1, c2>>]

MatrixCellRecomputed(d, sel, i, j, scipy) ==
    IF i = j THEN One ELSE CramersV(d, sel[i], sel[j], scipy)

(* Row by row in column order: the diagonal is 1.0, a cell whose mirror    *)
(* was already computed copies it, any other cell is computed.             *)
MatrixCell(d, sel, i, j, scipy) ==
    IF i = j THEN One
    ELSE IF j < i THEN CramersV(d, sel[j], sel[i], scipy)
    ELSE CramersV(d, sel[i], sel[j], scipy)

generate_correlation_matrix(d, scipy) ==
    IF d.rows = <<>> \/ Len(d.columns) < 2 THEN EmptyDict
    ELSE IF Len(ObjectCols(d)) < 2 THEN EmptyDict
    ELSE LET sel == Take(ObjectCols(d), MaxCatCols)
         IN [a \in Range(sel) |-> [b \in Range(sel) |->
                MatrixCell(d, sel,
                           CHOOSE i \in DOMAIN sel : sel[i] = a,
                           CHOOSE j \in DOMAIN sel : sel[j] = b,
                           scipy)]]

-----------------------------------------------------------------------------
(* detect_anomalies.                                                       *)

TransactionSizes(rows) ==
    [t \in {rows[i].Transaction : i \in DOMAIN rows} |->
        Cardinality({i \in DOMAIN rows : rows[i].Transaction = t})]

(* size > mean + 2 * std over the transaction sizes (sample std); with     *)
(* fewer than two transactions std is NaN and nothing compares greater.    *)
IsLarge(sizes, t) ==
    LET sq == SetToSeq(DOMAIN sizes)
        xs == [i \in DOMAIN sq |-> sizes[sq[i]]]
        n  == Len(xs)
        dv == n * sizes[t] - SumSeq(xs)
    IN /\ n >= 2
       /\ dv > 0
       /\ dv * dv * (n - 1) > 4 * n * (n * SumSq(xs) - SumSeq(xs) * SumSeq(xs))

LateHours == (22 .. 23) \cup (0 .. 5)

(* str(hour): the hour column is float64 as soon as one timestamp is NaT.  *)
HourKey(d, h) ==
    [hour |-> h, float |-> \E i \in DOMAIN d.rows : IsNaT(d.rows[i].date_time)]

detect_anomalies(d) ==
    IF ~(HasCol(d, "Transaction") /\ HasCol(d, "Item")) THEN EmptyDict
    ELSE LET sizes == TransactionSizes(d.rows)
             large == {t \in DOMAIN sizes : IsLarge(sizes, t)}
             vc    == value_counts(Column(d, "Item"))
             once  == SelectSeq(vc, LAMBDA p : p[2] = 1)
             rare  == [i \in DOMAIN once |-> once[i][1]]
             rows  == Parsed(d)
             late  == {rows[i].date_time.hour : i \in DOMAIN rows} \cap LateHours
         IN (IF large # {}
             THEN "large_transactions" :> [transactions |-> [t \in large |-> sizes[t]]]
             ELSE EmptyDict)
            @@
            (IF rare # <<>>
             THEN "rare_items" :> [items |-> Take(rare, RareLimit)]
             ELSE EmptyDict)
            @@
            (IF HasCol(d, "date_time") /\ late # {}
             THEN "unusual_hours" :>
                  [counts |-> [k \in {HourKey(d, h) : h \in late} |->
                      Cardinality({i \in DOMAIN rows : rows[i].date_time.hour = k.hour})]]
             ELSE EmptyDict)

-----------------------------------------------------------------------------
(* forecast_sales.                                                         *)

(* groupby(datetime.dt.date)['Transaction'].nunique(): one entry per       *)
(* distinct parsed day, ascending; rows whose timestamp is NaT drop out.   *)
DailySales(d) ==
    LET rows == Parsed(d)
        days == SortAscending(SetToSeq({rows[i].date_time.day : i \in DOMAIN rows}))
    IN [k \in DOMAIN days |->
          [ds |-> days[k],
           y  |-> Cardinality({rows[i].Transaction :
                      i \in {j \in DOMAIN rows : rows[j].date_time.day = days[k]}})]]

(* strftime('%Y-%m-%d') of a day.                                          *)
IsoDate(day) == [iso |-> day]

(* What a fitted library model can predict for the 30 days after the       *)
(* history, in tenths: a line with one bump, and, for Prophet, the half    *)
(* width of its uncertainty interval.                                      *)
ForecastShapes ==
    { [base |-> 100, slope |-> 3, bump_at |-> 0, bump |-> 0, band |-> 15],
      [base |-> 45, slope |-> -10, bump_at |-> 0, bump |-> 0, band |-> 0],
      [base |-> 37, slope |-> 0, bump_at |-> 0, bump |-> 0, band |-> 4],
      [base |-> 60, slope |-> 0, bump_at |-> 17, bump |-> 55, band |-> 26],
      [base |-> 0, slope |-> 2, bump_at |-> 2, bump |-> 31, band |-> 7] }

ShapeAt(sh, i) ==
    sh.base + sh.slope * (i - 1) + (IF i = sh.bump_at THEN sh.bump ELSE 0)

LibraryOutcomes == {[raises |-> TRUE, shape |-> sh] : sh \in {CHOOSE x \in ForecastShapes : TRUE}}
                   \cup {[raises |-> FALSE, shape |-> sh] : sh \in ForecastShapes}

Raise == [raised |-> TRUE, value |-> EmptyDict]

Return(v) == [raised |-> FALSE, value |-> v]

(* model.predict(model.make_future_dataframe(periods)): one row per day of *)
(* the history and per future day, labelled 0, 1, ... in that order.       *)
ProphetPredict(daily, sh, periods) ==
    LET H == Len(daily)
    IN [n \in 1 .. H + periods |->
          LET i == IF n <= H THEN 1 ELSE n - H
          IN [label |-> n - 1,
              ds |-> IF n <= H THEN daily[n].ds ELSE daily[H].ds + (n - H),
              yhat |-> ShapeAt(sh, i),
              yhat_lower |-> ShapeAt(sh, i) - sh.band,
              yhat_upper |-> ShapeAt(sh, i) + sh.band]]

FutureForecastInclusive(fcst, last_date) == SelectSeq(fcst, LAMBDA r : r.ds >= last_date)

(* fcst[fcst['ds'] > last_date]: the rows keep their labels.               *)
FutureForecast(fcst, last_date) == SelectSeq(fcst, LAMBDA r : r.ds > last_date)

(* The position (from 1) of the first maximum of xs.                       *)
ArgMax(xs) ==
    CHOOSE i \in DOMAIN xs :
        /\ \A j \in DOMAIN xs : xs[j] <= xs[i]
        /\ \A j \in 1 .. i - 1 : xs[j] < xs[i]

(* ((last_pred - first_pred) / first_pred) * 100 if first_pred > 0 else 0  *)
TrendPct(first_pred, last_pred) ==
    IF first_pred > 0 THEN Rat(100 * (last_pred - first_pred), first_pred) ELSE Rat(0, 1)

(* Tier 1, lines 185-239.  Prophet needs two rows of history.  idxmax      *)
(* returns the LABEL of the peak row, iloc takes it as a POSITION among    *)
(* the future rows: IndexError when the label is 30 or more.               *)
Tier1(daily, o, periods) ==
    IF o.raises \/ Len(daily) < 2 THEN Raise
    ELSE LET fcst == ProphetPredict(daily, o.shape, periods)
             ff   == FutureForecast(fcst, daily[Len(daily)].ds)
             yhat == [i \in DOMAIN ff |-> ff[i].yhat]
             peak_day_idx == ff[ArgMax(yhat)].label
         IN IF peak_day_idx >= Len(ff) THEN Raise
            ELSE Return(
              [dates |-> [i \in DOMAIN ff |-> IsoDate(ff[i].ds)],
               predicted |-> [i \in DOMAIN ff |-> RoundHalfEven(ff[i].yhat, 10)],
               lower_bound |-> [i \in DOMAIN ff |-> RoundHalfEven(ff[i].yhat_lower, 10)],
               upper_bound |-> [i \in DOMAIN ff |-> RoundHalfEven(ff[i].yhat_upper, 10)],
               trend |-> TrendPct(yhat[1], yhat[Len(yhat)]),
               seasonal_periods |-> "weekly, yearly",
               peak_forecast_day |-> IsoDate(ff[peak_day_idx + 1].ds)])

(* Tier 2, lines 246-282.  The seasonal model needs two full cycles of     *)
(* seasonal_periods days; the bounds are 0.8 and 1.2 times the prediction. *)
Tier2(daily, o, periods) ==
    IF o.raises \/ Len(daily) < 2 * seasonal_periods THEN Raise
    ELSE LET last_date == daily[Len(daily)].ds
             forecast_index == [i \in 1 .. periods |-> last_date + i]
             predictions == [i \in 1 .. periods |-> ShapeAt(o.shape, i)]
             peak_day_idx == ArgMax(predictions)
         IN Return(
              [dates |-> [i \in DOMAIN forecast_index |-> IsoDate(forecast_index[i])],
               predicted |-> [i \in DOMAIN predictions |-> RoundHalfEven(predictions[i], 10)],
               lower_bound |-> [i \in DOMAIN predictions |->
                                   RoundHalfEven(8 * predictions[i], 100)],
               upper_bound |-> [i \in DOMAIN predictions |->
                                   RoundHalfEven(12 * predictions[i], 100)],
               trend |-> TrendPct(predictions[1], predictions[periods]),
               seasonal_periods |-> "weekly",
               peak_forecast_day |-> IsoDate(forecast_index[peak_day_idx])])

(* Tier 3, lines 288-306: the mean of the last min(7, n) daily counts,     *)
(* repeated; int() truncates.                                              *)
Tier3(daily, periods) ==
    LET window_size == Min2(MaWindow, Len(daily))
        last == SubSeq(daily, Len(daily) - window_size + 1, Len(daily))
        total == SumSeq([i \in DOMAIN last |-> last[i].y])
        forecast_dates == [i \in 1 .. periods |-> IsoDate(daily[Len(daily)].ds + i)]
    IN Return(
         [dates |-> forecast_dates,
          predicted |-> [i \in 1 .. periods |-> Trunc(total, window_size)],
          lower_bound |-> [i \in 1 .. periods |-> Trunc(8 * total, 10 * window_size)],
          upper_bound |-> [i \in 1 .. periods |-> Trunc(12 * total, 10 * window_size)],
          trend |-> Rat(0, 1),
          seasonal_periods |-> "not detected",
          peak_forecast_day |-> forecast_dates[1]])

(* Lines 169-179: without the columns, or without one parsed timestamp,    *)
(* forecast_sales returns {} before any tier.                              *)
ForecastPrerequisites(d) ==
    /\ HasCol(d, "date_time")
    /\ HasCol(d, "Transaction")
    /\ \E i \in DOMAIN d.rows : ~IsNaT(d.rows[i].date_time)

AfterTierUnnested(tier_raised, next_tier) == next_tier

(* The nested try/except: where control goes when a tier has run.          *)
AfterTier(tier_raised, next_tier) ==
    IF tier_raised THEN next_tier ELSE "forecast_return"

-----------------------------------------------------------------------------
(* segment_customers.                                                      *)

(* A possibly missing integer: a recency is NaN for a transaction none of  *)
(* whose timestamps parsed.                                                *)
Known(v) == [nan |-> FALSE, v |-> v]

Missing == [nan |-> TRUE, v |-> 0]

(* (today - x.max()).days over the parsed timestamps of transaction t,     *)
(* today being the latest parsed timestamp of the row-set.                 *)
Recency(d, t) ==
    LET all  == Parsed(d)
        mine == SelectSeq(all, LAMBDA r : r.Transaction = t)
        today == CHOOSE s \in {Stamp(all[i].date_time) : i \in DOMAIN all} :
                    \A i \in DOMAIN all : Stamp(all[i].date_time) <= s
        last  == CHOOSE s \in {Stamp(mine[i].date_time) : i \in DOMAIN mine} :
                    \A i \in DOMAIN mine : Stamp(mine[i].date_time) <= s
    IN IF mine = <<>> THEN Missing ELSE Known((today - last) \div 24)

(* The frame rfm before scoring: one row per Transaction, ascending.       *)
RfmFrame(d) ==
    LET ids == TransactionIds(d.rows)
    IN [k \in DOMAIN ids |->
          [Transaction |-> ids[k],
           recency |-> IF HasCol(d, "date_time") THEN Recency(d, ids[k]) ELSE Known(1),
           frequency |-> Known(Cardinality({i \in DOMAIN d.rows :
                                              d.rows[i].Transaction = ids[k]}))]]

(* Series.quantile at k/q with linear interpolation over the sorted known  *)
(* values s (n = Len(s) >= 1), multiplied by q to stay an integer.         *)
QuantileEdge(s, k, q) ==
    LET pos == (Len(s) - 1) * k
        lo  == pos \div q + 1
        rem == pos % q
    IN IF rem = 0 THEN q * s[lo] ELSE q * s[lo] + rem * (s[lo + 1] - s[lo])

(* pd.qcut(xs, q, labels): ValueError ("Bin edges must be unique") when    *)
(* two of the q + 1 quantile edges coincide or no value is known.  A value *)
(* falls in bin (edge[i-1], edge[i]], the lowest edge included in bin 1; a *)
(* missing value gets no label (0 here).                                   *)
qcut(xs, q, labels) ==
    LET known == SelectSeq(xs, LAMBDA x : ~x.nan)
        s     == SortAscending([i \in DOMAIN known |-> known[i].v])
        edges == [k \in 0 .. q |-> QuantileEdge(s, k, q)]
        bin(v) == Max2(1, Cardinality({k \in 0 .. q : edges[k] < q * v}))
    IN IF s = <<>> \/ Cardinality({edges[k] : k \in 0 .. q}) < q + 1 THEN Raise
       ELSE Return([i \in DOMAIN xs |->
                      IF xs[i].nan THEN 0 ELSE labels[bin(xs[i].v)]])

RScoreLabels == <<5, 4, 3, 2, 1>>

FScoreLabels == <<1, 2, 3, 4, 5>>

(* astype(str) of a score.                                                 *)
ScoreStr(score) == IF score = 0 THEN "nan" ELSE ToString(score)

SegmentNames == <<"Champions", "Loyal", "Potential", "New", "At Risk", "Others">>

SegmentCodes ==
    ("Champions" :> {"55", "54", "45"}) @@
    ("Loyal"     :> {"53", "52", "51", "44", "43", "42", "35", "34", "33"}) @@
    ("Potential" :> {"41", "32", "31", "25", "24", "23"}) @@
    ("New"       :> {"15", "14", "13", "12", "11"}) @@
    ("At Risk"   :> {"50", "40", "30", "20", "10"}) @@
    ("Others"    :> {})

(* next((k for k, v in segments.items() if x in v), 'Others'): the first   *)
(* name, in the dict's order, whose list holds the code.                   *)
SegmentOf(code) ==
    LET hits == SelectSeq(SegmentNames, LAMBDA k : code \in SegmentCodes[k])
    IN IF hits = <<>> THEN "Others" ELSE hits[1]

(* The mean of the known values of a column over the rows of one segment.  *)
KnownMean(rows, col) ==
    LET known == SelectSeq(rows, LAMBDA r : ~r[col].nan)
    IN Mean([i \in DOMAIN known |-> known[i][col].v])

RECURSIVE InsertByFrequency(_, _)
InsertByFrequency(s, r) ==
    IF s = <<>> THEN <<r>>
    ELSE IF Head(s).frequency.v >= r.frequency.v
         THEN <<Head(s)>> \o InsertByFrequency(Tail(s), r)
    ELSE <<r>> \o s

RECURSIVE SortByFrequency(_)
SortByFrequency(s) ==
    IF s = <<>> THEN <<>>
    ELSE InsertByFrequency(SortByFrequency(SubSeq(s, 1, Len(s) - 1)), s[Len(s)])

(* The returned dict, and whether an exception was raised (and caught, in  *)
(* which case the dict is still the initial {}).                           *)
segment_customers(d) ==
    IF ~HasCol(d, "Transaction") \/ ~HasCol(d, "Item") THEN Return(EmptyDict)
    ELSE LET frame == RfmFrame(d)
             R == qcut([i \in DOMAIN frame |-> frame[i].recency], Quantiles, RScoreLabels)
             F == qcut([i \in DOMAIN frame |-> frame[i].frequency], Quantiles, FScoreLabels)
         IN IF R.raised \/ F.raised THEN Raise
            ELSE LET rfm == [i \in DOMAIN frame |->
                         LET code == ScoreStr(R.value[i]) \o ScoreStr(F.value[i])
                         IN [Transaction |-> frame[i].Transaction,
                             recency |-> frame[i].recency,
                             frequency |-> frame[i].frequency,
                             R_score |-> R.value[i],
                             F_score |-> F.value[i],
                             RFM_score |-> code,
                             segment |-> SegmentOf(code)]]
                     present == {rfm[i].segment : i \in DOMAIN rfm}
                     members(g) == SelectSeq(rfm, LAMBDA r : r.segment = g)
                 IN Return(
                      [segments |-> [g \in present |-> Len(members(g))],
                       segment_stats |->
                           [recency   |-> [g \in present |-> KnownMean(members(g), "recency")],
                            frequency |-> [g \in present |-> KnownMean(members(g), "frequency")]],
                       top_customers |-> Take(SortByFrequency(rfm), TopCustomers)])

-----------------------------------------------------------------------------
(* generate_basic_insights: the narrative as its sequence of lines.  A     *)
(* line is [k |-> what it says, v |-> the values formatted into it].  The  *)
(* entries of a dict are visited in one fixed order of its keys.           *)

Line(k, v) == [k |-> k, v |-> v]

Keys(dict) == SetToSeq(DOMAIN dict)

(* Column names in string order, for 'col1 < col2'.                        *)
AlphaRank(c) ==
    CHOOSE i \in 1 .. 4 : <<"Item", "Qty", "Transaction", "date_time">>[i] = c

(* max(d.items(), key=lambda x: x[1])[0] for a non-empty dict.             *)
PeakKey(dict) == CHOOSE k \in DOMAIN dict : \A j \in DOMAIN dict : dict[j] <= dict[k]

DictGet(dict, k, default) == IF k \in DOMAIN dict THEN dict[k] ELSE default

NumericLines(st) ==
    LET ks == Keys(st.numeric_columns)
    IN Concat([i \in DOMAIN ks |->
          LET x == st.numeric_columns[ks[i]]
          IN << Line("numeric", <<ks[i]>>), Line("average", <<x.mean>>),
                Line("range", <<x.min, x.max>>), Line("std", <<x.std>>),
                Line("blank", <<>>) >>])

CategoricalLines(st) ==
    LET ks == Keys(st.categorical_columns)
    IN Concat([i \in DOMAIN ks |->
          LET x == st.categorical_columns[ks[i]]
          IN << Line("categorical", <<ks[i]>>), Line("unique", <<x.unique_values>>),
                Line("most_common", <<x.most_common>>), Line("blank", <<>>) >>])

CorrelationLines(st) ==
    IF DOMAIN st.correlations = {} THEN <<>>
    ELSE LET cols == DOMAIN st.correlations
             pairs == SetToSeq({p \in cols \X cols : AlphaRank(p[1]) < AlphaRank(p[2])})
         IN <<Line("correlation_header", <<>>)>> \o
            [i \in DOMAIN pairs |->
               Line("correlation", <<pairs[i][1], pairs[i][2],
                                     st.correlations[pairs[i][1]][pairs[i][2]]>>)]

TimeLines(st) ==
    IF "time_patterns" \notin DOMAIN st THEN <<>>
    ELSE LET tp == st.time_patterns
         IN <<Line("time_header", <<>>)>>
            \o (IF "hourly" \in DOMAIN tp
                THEN <<Line("peak_hour", <<PeakKey(tp.hourly)>>)>> ELSE <<>>)
            \o (IF "daily" \in DOMAIN tp
                THEN <<Line("peak_day", <<PeakKey(tp.daily)>>)>> ELSE <<>>)
            \o (IF "weekday_weekend" \in DOMAIN tp
                THEN <<Line("distribution",
                            <<DictGet(tp.weekday_weekend, "weekday", 0),
                              DictGet(tp.weekday_weekend, "weekend", 0)>>)>>
                ELSE <<>>)

AssociationLines(st) ==
    IF "product_associations" \notin DOMAIN st \/ DOMAIN st.product_associations = {}
    THEN <<>>
    ELSE LET ks == Take(Keys(st.product_associations), NarratedAnchors)
         IN <<Line("association_header", <<>>)>> \o
            [i \in DOMAIN ks |->
               Line("bought_with",
                    <<ks[i], Take(st.product_associations[ks[i]], NarratedAssociates)>>)]

ForecastLines(st) ==
    IF "forecast" \notin DOMAIN st \/ DOMAIN st.forecast = {} THEN <<>>
    ELSE LET f == st.forecast
         IN <<Line("forecast_header", <<>>)>>
            \o (IF "trend" \in DOMAIN f
                THEN <<Line("trend", <<IF f.trend.num > 0 THEN "upward" ELSE "downward",
                                       Rat(IF f.trend.num < 0 THEN -f.trend.num
                                           ELSE f.trend.num, f.trend.den)>>)>>
                ELSE <<>>)
            \o (IF "seasonal_periods" \in DOMAIN f
                THEN <<Line("seasonal", <<f.seasonal_periods>>)>> ELSE <<>>)
            \o (IF "peak_forecast_day" \in DOMAIN f
                THEN <<Line("peak_forecast", <<f.peak_forecast_day>>)>> ELSE <<>>)

SegmentLines(st) ==
    IF "customer_segments" \notin DOMAIN st \/ DOMAIN st.customer_segments = {}
    THEN <<>>
    ELSE LET segments == DictGet(st.customer_segments, "segments", EmptyDict)
             ks == Keys(segments)
             total == SumSeq([i \in DOMAIN ks |-> segments[ks[i]]])
         IN <<Line("segment_header", <<>>)>> \o
            [i \in DOMAIN ks |->
               Line("segment", <<ks[i], segments[ks[i]], Rat(100 * segments[ks[i]], total)>>)]

generate_basic_insights(st) ==
    NumericLines(st) \o CategoricalLines(st) \o CorrelationLines(st) \o TimeLines(st)
    \o AssociationLines(st) \o ForecastLines(st) \o SegmentLines(st)

-----------------------------------------------------------------------------
(* The inputs.                                                             *)

Subsequences(s) ==
    {SelectSeq(s, LAMBDA c : c \in keep) : keep \in SUBSET Range(s)}

(* The values a raw row can hold in each column; a missing value (NA) is   *)
(* drawn for the Item column.                                              *)
RowValues ==
    [Transaction : 1 .. MaxTxn,
     Item : {"A", "B", NA},
     date_time : {Date(1, 10), Date(2, 23), BadDate},
     Qty : {3}]

(* A row of a file with the given columns: placeholders elsewhere.         *)
RowsOver(columns) ==
    {[c \in DOMAIN Absent |-> IF c \in Range(columns) THEN r[c] ELSE Absent[c]] :
        r \in RowValues}

SeqsUpTo(S, n) == UNION {[1 .. k -> S] : k \in 0 .. n}

Unreadable == [readable |-> FALSE, columns |-> <<>>, rows |-> <<>>]

SmallFiles ==
    UNION {{[readable |-> TRUE, columns |-> cs, rows |-> rs] :
               rs \in SeqsUpTo(RowsOver(cs), MaxRows)} :
           cs \in Subsequences(ColumnOrder) \ {<<>>}}

(* One transaction a day over n consecutive days.                          *)
DailyFile(n) ==
    [readable |-> TRUE,
     columns |-> <<"Transaction", "Item", "date_time">>,
     rows |-> [i \in 1 .. n |-> Row(i, "A", Date(i, 10))]]

(* Histories around the lengths the forecaster's tiers depend on.          *)
HistoryLengths ==
    {2 * seasonal_periods, forecast_periods - 1, forecast_periods + 1}

(* Three transactions of 1, 2 and 3 rows on three different days.          *)
GradedFile ==
    [readable |-> TRUE,
     columns |-> <<"Transaction", "Item", "date_time">>,
     rows |-> <<Row(1, "A", Date(1, 10)), Row(2, "A", Date(3, 10)),
                Row(2, "B", Date(3, 10))>>]

(* Files laid out as Transaction, Item, date_time, period_day,             *)
(* weekday_weekend, some of whose timestamps do not parse.                 *)
TaggedValues ==
    {[Row(t, "A", stamp) EXCEPT !.period_day = "morning", !.weekday_weekend = w] :
        t \in 1 .. MaxTxn, stamp \in {Date(1, 10), BadDate}, w \in {"weekday", "weekend"}}

TaggedFiles ==
    {[readable |-> TRUE,
      columns |-> <<"Transaction", "Item", "date_time", "period_day", "weekday_weekend">>,
      rows |-> rs] : rs \in SeqsUpTo(TaggedValues, MaxRows)}

(* A file with five text columns.                                          *)
WideFile ==
    [readable |-> TRUE,
     columns |-> <<"Transaction", "Item", "date_time">> \o TagColumns,
     rows |-> <<[Row(1, "A", Date(1, 10)) EXCEPT
                    !.period_day = "morning", !.weekday_weekend = "weekday", !.Note = "x"],
                [Row(2, "A", Date(3, 10)) EXCEPT
                    !.period_day = "morning", !.weekday_weekend = "weekend", !.Note = "y"],
                [Row(2, "B", Date(3, 10)) EXCEPT
                    !.period_day = "night", !.weekday_weekend = "weekend", !.Note = "y"],
                [Row(3, "B", Date(4, 23)) EXCEPT
                    !.period_day = "night", !.weekday_weekend = "weekday", !.Note = "x"]>>]

Files ==
    {Unreadable, GradedFile, WideFile} \cup SmallFiles \cup TaggedFiles
        \cup {DailyFile(n) : n \in HistoryLengths}

NoFrame == [columns |-> <<>>, dtypes |-> EmptyDict, rows |-> <<>>]

NoResults == [statistics |-> EmptyDict, insights |-> <<>>]

Init ==
    /\ file \in Files
    /\ df = NoFrame
    /\ pc = "start"
    /\ stats = EmptyDict
    /\ daily_sales = <<>>
    /\ forecast_result = EmptyDict
    /\ attempted = <<>>
    /\ raised = {}
    /\ analysis_results = NoResults
    /\ gpt = ""
    /\ exc = ""
    /\ stdout = <<>>
    /\ result = EmptyDict

-----------------------------------------------------------------------------
(* process_data and generate_insights, one step per call.                  *)

(* Lines 663-672: read_csv raises on a file that is no table.              *)
ReadCsv ==
    /\ pc = "start"
    /\ \/ /\ ~file.readable
          /\ exc' = "read_csv"
          /\ pc' = "except"
          /\ df' = df
       \/ /\ file.readable
          /\ df' = dropna(read_csv(file))
          /\ pc' = "describe"
          /\ exc' = exc
    /\ UNCHANGED <<file, stats, daily_sales, forecast_result, attempted, raised,
                   analysis_results, gpt, stdout, result>>

(* Lines 550-581, outside any try: an IndexError leaves generate_insights  *)
(* and is caught by process_data.                                          *)
Describe ==
    /\ pc = "describe"
    /\ \/ /\ CategoricalRaises(df)
          /\ raised' = raised \cup {"descriptive"}
          /\ exc' = "IndexError"
          /\ pc' = "except"
          /\ stats' = stats
       \/ /\ ~CategoricalRaises(df)
          /\ stats' = BasicStats(df)
          /\ pc' = "time_patterns"
          /\ UNCHANGED <<raised, exc>>
    /\ UNCHANGED <<file, df, daily_sales, forecast_result, attempted,
                   analysis_results, gpt, stdout, result>>

(* stats[key] = section(df): a section that raised inside has caught the   *)
(* exception itself and returns its default.                               *)
Section(key, r, next) ==
    /\ pc = key
    /\ stats' = stats @@ (key :> r.value)
    /\ raised' = IF r.raised THEN raised \cup {key} ELSE raised
    /\ pc' = next
    /\ UNCHANGED <<file, df, daily_sales, forecast_result, attempted,
                   analysis_results, gpt, exc, stdout, result>>

TimePatterns ==
    Section("time_patterns", analyze_time_patterns(df), "product_associations")

ProductAssociations ==
    Section("product_associations",
            Return(analyze_product_associations(df, DefaultMinSupport)),
            "categorical_correlation")

(* scipy is installed or it is not.                                        *)
CategoricalCorrelation ==
    \E scipy \in BOOLEAN :
        Section("categorical_correlation",
                Return(generate_correlation_matrix(df, scipy)), "anomalies")

Anomalies == Section("anomalies", Return(detect_anomalies(df)), "forecast")

CustomerSegments == Section("customer_segments", segment_customers(df), "gpt")

(* forecast_sales, lines 165-182: the prerequisite checks and the daily    *)
(* series.                                                                 *)
ForecastEnter ==
    /\ pc = "forecast"
    /\ forecast_result' = EmptyDict
    /\ attempted' = <<>>
    /\ \/ /\ ~ForecastPrerequisites(df)
          /\ daily_sales' = <<>>
          /\ pc' = "forecast_return"
       \/ /\ ForecastPrerequisites(df)
          /\ daily_sales' = DailySales(df)
          /\ pc' = "tier1"
    /\ UNCHANGED <<file, df, stats, raised, analysis_results, gpt, exc, stdout, result>>

(* A tier has run: its record is assigned only when it did not raise.      *)
TierDone(tier, r, next_tier) ==
    /\ attempted' = Append(attempted, tier)
    /\ forecast_result' = IF r.raised THEN forecast_result ELSE r.value
    /\ raised' = IF r.raised THEN raised \cup {"forecast.tier" \o ToString(tier)} ELSE raised
    /\ pc' = AfterTier(r.raised, next_tier)
    /\ UNCHANGED <<file, df, stats, daily_sales, analysis_results, gpt, exc, stdout, result>>

TryProphet ==
    /\ pc = "tier1"
    /\ \E o \in LibraryOutcomes :
          TierDone(1, Tier1(daily_sales, o, forecast_periods), "tier2")

TryExponentialSmoothing ==
    /\ pc = "tier2"
    /\ \E o \in LibraryOutcomes :
          TierDone(2, Tier2(daily_sales, o, forecast_periods), "tier3")

(* An exception of tier 3 would reach the outer handler, which returns the *)
(* record as it stands.                                                    *)
MovingAverage ==
    /\ pc = "tier3"
    /\ TierDone(3, Tier3(daily_sales, forecast_periods), "forecast_return")

(* Line 596: stats['forecast'] = forecast_sales(df)                        *)
ForecastReturn ==
    /\ pc = "forecast_return"
    /\ stats' = stats @@ ("forecast" :> forecast_result)
    /\ pc' = "customer_segments"
    /\ UNCHANGED <<file, df, daily_sales, forecast_result, attempted, raised,
                   analysis_results, gpt, exc, stdout, result>>

(* Lines 601-657.  What the collaborator can do: there is no API key, it   *)
(* answers, it fails with a quota error, it fails otherwise.               *)
GptOutcomes == {"no_key", "ok", "quota", "error"}

GptText == <<Line("gpt", <<>>)>>

InsightsForQuotaDropped(outcome, st) ==
    IF outcome = "ok" THEN GptText
    ELSE IF outcome = "quota" THEN <<>> ELSE generate_basic_insights(st)

InsightsFor(outcome, st) ==
    IF outcome = "ok" THEN GptText ELSE generate_basic_insights(st)

(* generate_insights returns the bundle for one outcome.                   *)
GptReturn(outcome) ==
    /\ gpt' = outcome
    /\ analysis_results' = [statistics |-> stats,
                            insights |-> InsightsFor(outcome, stats)]
    /\ pc' = "results"
    /\ UNCHANGED <<file, df, stats, daily_sales, forecast_result, attempted, raised,
                   exc, stdout, result>>

(* Lines 603-635: without an API key the fallback is returned at once;     *)
(* with one, client.chat.completions.create(model, messages) is called,    *)
(* with no timeout argument and no timer around it, and the function waits *)
(* in the call.                                                            *)
GptInsights ==
    /\ pc = "gpt"
    /\ \/ GptReturn("no_key")
       \/ /\ pc' = "gpt_call"
          /\ UNCHANGED <<file, df, stats, daily_sales, forecast_result, attempted,
                         raised, analysis_results, gpt, exc, stdout, result>>

(* Lines 636-657: the call comes back, with an answer or an exception.     *)
(* Only the collaborator (or the client library) ends the wait.            *)
GptAnswer ==
    /\ pc = "gpt_call"
    /\ \E outcome \in GptOutcomes \ {"no_key"} : GptReturn(outcome)

(* Lines 686-692.                                                          *)
SuccessDocument(d, ar) ==
    [data |-> Take(d.rows, SampleRows),
     columns |-> d.columns,
     insights |-> ar.insights,
     statistics |-> ar.statistics,
     total_rows |-> Len(d.rows)]

ErrorDocumentPartial(e) ==
    [error |-> "Error processing file: " \o e,
     data |-> <<>>,
     columns |-> <<>>,
     insights |-> <<>>,
     statistics |-> stats]

(* Lines 702-708.                                                          *)
ErrorDocument(e) ==
    [error |-> "Error processing file: " \o e,
     data |-> <<>>,
     columns |-> <<>>,
     insights |-> <<>>,
     statistics |-> EmptyDict]

(* json.dumps(..., cls=CustomJSONEncoder), lines 22-34 and 697.  A float   *)
(* is written by the encoder itself (allow_nan is left at its default):    *)
(* a finite one as a number, NaN as the token NaN.  default(), which       *)
(* returns None for a null value, is called only for objects the encoder   *)
(* cannot write, and a float is not one of them.                           *)
JsonNumber(x) == [token |-> "number", value |-> x]

JsonNaN == [token |-> "NaN"]

JsonFloat(x) == IF x.nan THEN JsonNaN ELSE JsonNumber(x)

(* A cell of the categorical matrix is a float as well.                    *)
JsonCell(c) == IF c.kind = "nan" THEN JsonFloat(NaN) ELSE JsonNumber(c)

JsonSegments(cs) ==
    IF "segment_stats" \notin DOMAIN cs THEN cs
    ELSE [cs EXCEPT !.segment_stats =
             [m \in DOMAIN @ |-> [g \in DOMAIN @[m] |-> JsonFloat(@[m][g])]]]

(* The statistics as written: the sections that hold floats, the others    *)
(* as they are.                                                            *)
JsonStatistics(st) ==
    [k \in DOMAIN st |->
        IF k \in {"numeric_columns", "correlations"}
        THEN [c \in DOMAIN st[k] |-> [f \in DOMAIN st[k][c] |-> JsonFloat(st[k][c][f])]]
        ELSE IF k = "categorical_correlation"
        THEN [a \in DOMAIN st[k] |-> [b \in DOMAIN st[k][a] |-> JsonCell(st[k][a][b])]]
        ELSE IF k = "customer_segments" THEN JsonSegments(st[k])
        ELSE st[k]]

json_dumps(doc) == [doc EXCEPT !.statistics = JsonStatistics(@)]

(* Lines 677-698: json.dumps builds the whole text before print writes it; *)
(* it may raise on a value it cannot encode.                               *)
PrintResults ==
    /\ pc = "results"
    /\ \/ /\ stdout' = Append(stdout, json_dumps(SuccessDocument(df, analysis_results)))
          /\ pc' = "done"
          /\ exc' = exc
       \/ /\ exc' = "json.dumps"
          /\ pc' = "except"
          /\ stdout' = stdout
    /\ UNCHANGED <<file, df, stats, daily_sales, forecast_result, attempted, raised,
                   analysis_results, gpt, result>>

(* Lines 699-710.                                                          *)
PrintError ==
    /\ pc = "except"
    /\ stdout' = Append(stdout, json_dumps(ErrorDocument(exc)))
    /\ pc' = "done"
    /\ UNCHANGED <<file, df, stats, daily_sales, forecast_result, attempted, raised,
                   analysis_results, gpt, exc, result>>

Next ==
    \/ ReadCsv
    \/ Describe
    \/ TimePatterns
    \/ ProductAssociations
    \/ CategoricalCorrelation
    \/ Anomalies
    \/ ForecastEnter
    \/ TryProphet
    \/ TryExponentialSmoothing
    \/ MovingAverage
    \/ ForecastReturn
    \/ CustomerSegments
    \/ GptInsights
    \/ GptAnswer
    \/ PrintResults
    \/ PrintError

Spec == Init /\ [][Next]_vars

(* The steps the program takes on its own; GptAnswer is the collaborator's. *)
ProgramStep ==
    \/ ReadCsv
    \/ Describe
    \/ TimePatterns
    \/ ProductAssociations
    \/ CategoricalCorrelation
    \/ Anomalies
    \/ ForecastEnter
    \/ TryProphet
    \/ TryExponentialSmoothing
    \/ MovingAverage
    \/ ForecastReturn
    \/ CustomerSegments
    \/ GptInsights
    \/ PrintResults
    \/ PrintError

-----------------------------------------------------------------------------
(* The forecaster's record.                                                *)

ForecastLists == {"dates", "predicted", "lower_bound", "upper_bound"}

HasRecord == forecast_result # EmptyDict

(* The tier whose record forecast_result holds.                            *)
ProducedBy(tier) ==
    /\ HasRecord
    /\ attempted # <<>>
    /\ attempted[Len(attempted)] = tier

(* C1: whichever tier produced the forecast record, its lists dates,       *)
(* predicted, lower_bound and upper_bound each have exactly 30 entries.    *)
C1_ThirtyEntries ==
    HasRecord => \A k \in ForecastLists : Len(forecast_result[k]) = 30

(* A record built by the Prophet tier from the rows after the history.     *)
C1_Witness ==
    /\ pc = "forecast_return"
    /\ ProducedBy(1)
    /\ Len(daily_sales) >= 2
    /\ Len(forecast_result.dates) = 30

(* C2: in every forecast record lower_bound[i] <= predicted[i] <=          *)
(* upper_bound[i] at every index, whatever the point forecast.             *)
C2_BoundsOrdered ==
    HasRecord =>
        \A i \in DOMAIN forecast_result.predicted :
            /\ forecast_result.lower_bound[i] <= forecast_result.predicted[i]
            /\ forecast_result.predicted[i] <= forecast_result.upper_bound[i]

IsPrefix(s, t) == Len(s) <= Len(t) /\ s = SubSeq(t, 1, Len(s))

TierRaised(tier) == ("forecast.tier" \o ToString(tier)) \in raised

(* C3: the tiers run in the order 1, 2, 3; a tier is entered only after    *)
(* every earlier tier raised; a record once assigned is never replaced,    *)
(* so the returned record is that of the first tier that did not raise.    *)
C3_TierOrder ==
    /\ [](IsPrefix(attempted, <<1, 2, 3>>))
    /\ []((pc = "tier2" \/ 2 \in Range(attempted)) => TierRaised(1))
    /\ []((pc = "tier3" \/ 3 \in Range(attempted)) => TierRaised(1) /\ TierRaised(2))
    /\ [][HasRecord /\ pc # "forecast" => forecast_result' = forecast_result]_vars
    /\ [](HasRecord => ~TierRaised(attempted[Len(attempted)]))

(* Exponential smoothing produced the record after Prophet raised.         *)
C3_Witness ==
    /\ pc = "forecast_return"
    /\ attempted = <<1, 2>>
    /\ TierRaised(1)
    /\ ProducedBy(2)

-----------------------------------------------------------------------------
(* The insight composer and the printed document.                          *)

StatisticsKeys ==
    {"numeric_columns", "categorical_columns", "correlations", "time_patterns",
     "product_associations", "categorical_correlation", "anomalies", "forecast",
     "customer_segments"}

GptFailed == gpt \in {"no_key", "quota", "error"}

(* C4: when the collaborator is unusable or fails, the returned insights   *)
(* are generate_basic_insights of the returned statistics, and the         *)
(* returned statistics are the document built before the collaborator was  *)
(* tried, the same whatever the collaborator did.                          *)
C4_FallbackNarrative ==
    /\ GptFailed =>
          analysis_results.insights = generate_basic_insights(analysis_results.statistics)
    /\ gpt # "" => analysis_results.statistics = stats

(* A quota error on a document that holds a forecast.                      *)
C4_Witness ==
    /\ pc = "results"
    /\ gpt = "quota"
    /\ stats.forecast # EmptyDict
    /\ analysis_results.insights = generate_basic_insights(stats)

Printed == stdout[Len(stdout)]

(* A cleaned row-set went through the pipeline and printing did not fail.  *)
Analysed == pc = "done" /\ file.readable /\ exc # "json.dumps"

(* C5: for every cleaned row-set, the statistics document the pipeline     *)
(* returns has all nine top-level keys.                                    *)
C5_AllKeysPresent ==
    Analysed => StatisticsKeys \subseteq DOMAIN Printed.statistics

IsSuccessBundle(doc) ==
    DOMAIN doc = {"data", "columns", "insights", "statistics", "total_rows"}

(* C6: a failure inside one statistics section does not abort the          *)
(* pipeline: the caller gets the success bundle with every section.        *)
C6_SectionFailureContained ==
    (Analysed /\ raised # {}) =>
        /\ IsSuccessBundle(Printed)
        /\ StatisticsKeys \subseteq DOMAIN Printed.statistics
        /\ \A k \in raised \cap StatisticsKeys : Printed.statistics[k] = EmptyDict

(* C8: with no date_time column generate_insights does not raise,          *)
(* time_patterns and forecast are empty and no tier was attempted.         *)
C8_NoTimestampDegrades ==
    (Analysed /\ ~HasCol(df, "date_time")) =>
        /\ exc = ""
        /\ stats.time_patterns = EmptyDict
        /\ stats.forecast = EmptyDict
        /\ attempted = <<>>

(* C10: when process_data caught an exception, stdout holds the error      *)
(* document and nothing else: no success bundle, no partial statistics.    *)
C10_OnlyErrorDocument ==
    /\ (pc = "except") => stdout = <<>>
    /\ (pc = "done" /\ exc # "") =>
          /\ Len(stdout) = 1
          /\ DOMAIN Printed = {"error", "data", "columns", "insights", "statistics"}
          /\ Printed.error = "Error processing file: " \o exc
          /\ Printed.data = <<>>
          /\ Printed.columns = <<>>
          /\ Printed.insights = <<>>
          /\ Printed.statistics = EmptyDict

(* json.dumps failed after the whole statistics document was built.        *)
C10_Witness ==
    /\ pc = "done"
    /\ exc = "json.dumps"
    /\ StatisticsKeys \subseteq DOMAIN stats
    /\ Len(stdout) = 1
    /\ Printed.statistics = EmptyDict

(* C11: the text-generation call is time-bounded: while the program waits  *)
(* in the call it has a step of its own (a timeout) that abandons the call *)
(* and leads to the fallback, so that the pipeline ends whatever the       *)
(* collaborator does.                                                      *)
C11_CallBounded == (pc = "gpt_call") => ENABLED ProgramStep

(* C7: with Item and Transaction columns every distinct transaction gets   *)
(* one of the six names, no code is in two named lists, and the counts in  *)
(* `segments` sum to the number of distinct transactions.                  *)
C7_SegmentsPartition ==
    (pc = "gpt" /\ HasCol(df, "Item") /\ HasCol(df, "Transaction")) =>
        LET cs == stats.customer_segments
            names == SetToSeq(DOMAIN cs.segments)
        IN /\ "segments" \in DOMAIN cs
           /\ DOMAIN cs.segments \subseteq Range(SegmentNames)
           /\ SumSeq([i \in DOMAIN names |-> cs.segments[names[i]]])
                 = Len(TransactionIds(df.rows))
           /\ \A a, b \in Range(SegmentNames) :
                 a # b => SegmentCodes[a] \cap SegmentCodes[b] = {}

(* The matrix generate_insights stored, once the section has run.          *)
Matrix == stats.categorical_correlation

HasMatrix == "categorical_correlation" \in DOMAIN stats /\ Matrix # EmptyDict

(* C12: the matrix is square over the first min(4, n) categorical columns, *)
(* every diagonal cell is 1.0, and matrix[a][b] = matrix[b][a] for every   *)
(* pair, also when the computation for the pair failed.                    *)
C12_SquareSymmetric ==
    HasMatrix =>
        LET sel == Take(ObjectCols(df), MaxCatCols)
        IN /\ DOMAIN Matrix = Range(sel)
           /\ Len(sel) = Min2(MaxCatCols, Len(ObjectCols(df)))
           /\ \A a \in Range(sel) :
                 /\ DOMAIN Matrix[a] = Range(sel)
                 /\ Matrix[a][a] = One
                 /\ \A b \in Range(sel) : Matrix[a][b] = Matrix[b][a]

(* Five text columns, of which four are kept, and a pair whose Cramer's V  *)
(* was computed.                                                           *)
C12_Witness ==
    /\ HasMatrix
    /\ Len(ObjectCols(df)) > MaxCatCols
    /\ Cardinality(DOMAIN Matrix) = MaxCatCols
    /\ \E a, b \in DOMAIN Matrix : Matrix[a][b].kind = "V" /\ Matrix[b][a].kind = "V"

(* The floats written in the statistics of a printed document.             *)
WrittenFloats(st) ==
    UNION {UNION {{st[k][c][f] : f \in DOMAIN st[k][c]} : c \in DOMAIN st[k]} :
           k \in DOMAIN st \cap
                 {"numeric_columns", "correlations", "categorical_correlation"}}
    \cup
    (IF "customer_segments" \in DOMAIN st /\ "segment_stats" \in DOMAIN st.customer_segments
     THEN UNION {{st.customer_segments.segment_stats[m][g] :
                     g \in DOMAIN st.customer_segments.segment_stats[m]} :
                 m \in DOMAIN st.customer_segments.segment_stats}
     ELSE {})

(* C13: in the emitted document a non-finite statistical result is written *)
(* as null, never as the token NaN.                                        *)
C13_NonFiniteAsNull ==
    (pc = "done" /\ exc = "") =>
        \A x \in WrittenFloats(Printed.statistics) : x.token # "NaN"

(* The segmentation generate_insights stored.                              *)
Segmentation == stats.customer_segments

(* C14: with Item and Transaction but no timestamp column the segmenter    *)
(* raises nothing and returns a non-empty segmentation in which every      *)
(* transaction has recency 1 and a named segment.                          *)
C14_PlaceholderRecency ==
    (pc = "gpt" /\ HasCol(df, "Item") /\ HasCol(df, "Transaction")
                /\ ~HasCol(df, "date_time")) =>
        /\ "customer_segments" \notin raised
        /\ Segmentation # EmptyDict
        /\ \A i \in DOMAIN Segmentation.top_customers :
              /\ Segmentation.top_customers[i].recency = Known(1)
              /\ Segmentation.top_customers[i].segment \in Range(SegmentNames)

(* The largest value of a sequence of integers.                            *)
Largest(xs) == CHOOSE v \in Range(xs) : \A w \in Range(xs) : v >= w

(* C15: in every forecast record peak_forecast_day is one of the dates and *)
(* the prediction on that date is the largest of the window; in the flat   *)
(* tier-3 record it is the first date.                                     *)
C15_PeakIsArgmax ==
    HasRecord =>
        /\ \E i \in DOMAIN forecast_result.dates :
              /\ forecast_result.dates[i] = forecast_result.peak_forecast_day
              /\ forecast_result.predicted[i] = Largest(forecast_result.predicted)
        /\ ProducedBy(3) => forecast_result.peak_forecast_day = forecast_result.dates[1]

(* The anomalies generate_insights stored.                                 *)
Found == stats.anomalies

(* C16: each anomaly check depends on its own columns only: the off-hours  *)
(* key is there whenever date_time is present and a row falls in the late  *)
(* hours, rare_items whenever Item is present and an item occurs once,     *)
(* large_transactions whenever Transaction is present and a transaction is *)
(* unusually large.                                                        *)
C16_ChecksIndependent ==
    "anomalies" \in DOMAIN stats =>
        /\ "unusual_hours" \in DOMAIN Found <=>
              /\ HasCol(df, "date_time")
              /\ \E i \in DOMAIN df.rows :
                    ~IsNaT(df.rows[i].date_time) /\ df.rows[i].date_time.hour \in LateHours
        /\ "rare_items" \in DOMAIN Found <=>
              /\ HasCol(df, "Item")
              /\ \E i \in DOMAIN df.rows : Count(Column(df, "Item"), df.rows[i].Item) = 1
        /\ "large_transactions" \in DOMAIN Found <=>
              /\ HasCol(df, "Transaction")
              /\ \E t \in DOMAIN TransactionSizes(df.rows) :
                    IsLarge(TransactionSizes(df.rows), t)

(* C19: for a numeric column of a row-set with exactly one row the section *)
(* reports std = 0 and mean = median = min = max = the single value.       *)
C19_SingleRowStd ==
    ("numeric_columns" \in DOMAIN stats /\ Len(df.rows) = 1) =>
        \A c \in DOMAIN stats.numeric_columns :
            LET v == Rat(df.rows[1][c], 1)
            IN /\ stats.numeric_columns[c].std = Rat(0, 1)
               /\ stats.numeric_columns[c].mean = v
               /\ stats.numeric_columns[c].median = v
               /\ stats.numeric_columns[c].min = v
               /\ stats.numeric_columns[c].max = v

(* The time patterns generate_insights stored.                             *)
Patterns == stats.time_patterns

HasPatterns == "time_patterns" \in DOMAIN stats /\ Patterns # EmptyDict

(* The Transaction identifiers of the rows with a parsed timestamp.        *)
ParsedIn(S) == {df.rows[i].Transaction : i \in {j \in S : ~IsNaT(df.rows[j].date_time)}}

Hour(i) == df.rows[i].date_time.hour

Weekday(i) == day_name(df.rows[i].date_time)

Month(i) == month_name(df.rows[i].date_time)

(* C17: the value of every hourly, daily and monthly bucket is the number  *)
(* of distinct Transaction identifiers among the rows of the bucket, not   *)
(* the number of rows.                                                     *)
C17_DistinctTransactions ==
    HasPatterns =>
        /\ \A h \in DOMAIN Patterns.hourly :
              Patterns.hourly[h] = Cardinality(ParsedIn({i \in DOMAIN df.rows : Hour(i) = h}))
        /\ \A w \in DOMAIN Patterns.daily :
              Patterns.daily[w] = Cardinality(ParsedIn({i \in DOMAIN df.rows : Weekday(i) = w}))
        /\ \A m \in DOMAIN Patterns.monthly :
              Patterns.monthly[m] = Cardinality(ParsedIn({i \in DOMAIN df.rows : Month(i) = m}))

(* One transaction with two rows in the same hour, counted once.           *)
C17_Witness ==
    /\ HasPatterns
    /\ \E i, j \in DOMAIN df.rows :
          /\ i # j
          /\ ~IsNaT(df.rows[i].date_time)
          /\ df.rows[i].date_time = df.rows[j].date_time
          /\ df.rows[i].Transaction = df.rows[j].Transaction
          /\ Patterns.hourly[Hour(i)] = 1

(* C18: a row whose timestamp does not parse adds to none of the counts of *)
(* analyze_time_patterns when another row parses: every count, those of    *)
(* weekday_weekend and period_day included, is over the parsed rows; the   *)
(* row still takes part in the descriptive statistics.                     *)
C18_UnparsedExcluded ==
    HasPatterns =>
        /\ C17_DistinctTransactions
        /\ "weekday_weekend" \in DOMAIN Patterns =>
              \A w \in DOMAIN Patterns.weekday_weekend :
                  Patterns.weekday_weekend[w] =
                      Cardinality(ParsedIn({i \in DOMAIN df.rows :
                                               df.rows[i].weekday_weekend = w}))
        /\ "period_day" \in DOMAIN Patterns =>
              \A q \in DOMAIN Patterns.period_day :
                  Patterns.period_day[q] =
                      Cardinality(ParsedIn({i \in DOMAIN df.rows :
                                               df.rows[i].period_day = q}))
        /\ \A c \in DOMAIN stats.categorical_columns :
              stats.categorical_columns[c].unique_values = nunique(Column(df, c))

-----------------------------------------------------------------------------
(* analyze_product_associations applied on its own, with a chosen          *)
(* min_support.                                                            *)

BasketRow(t, item) == Row(t, item, Absent.date_time)

ItemName(i) == "I" \o ToString(i)

BasketColumns == <<"Transaction", "Item">>

(* Every file of up to MaxAssocRows rows over three items.                 *)
SmallBaskets ==
    {[readable |-> TRUE, columns |-> BasketColumns, rows |-> rs] :
        rs \in SeqsUpTo({BasketRow(t, x) : t \in 1 .. MaxTxn, x \in {"A", "B", "C"}},
                        MaxAssocRows)}

(* One transaction holding n different items once each.                    *)
WideBasket(n) ==
    [readable |-> TRUE, columns |-> BasketColumns,
     rows |-> [i \in 1 .. n |-> BasketRow(1, ItemName(i))]]

(* One transaction holding n items twice each and one more item once.      *)
CrowdedBasket(n) ==
    [readable |-> TRUE, columns |-> BasketColumns,
     rows |-> [i \in 1 .. 2 * n + 1 |->
                 BasketRow(1, ItemName(IF i > 2 * n THEN n + 1 ELSE ((i - 1) % n) + 1))]]

BasketFiles ==
    SmallBaskets \cup {WideBasket(TopAssociated + 2), CrowdedBasket(TopPopular)}

InitAssoc ==
    /\ file \in BasketFiles
    /\ df = dropna(read_csv(file))
    /\ pc = "call"
    /\ stats = EmptyDict
    /\ daily_sales = <<>>
    /\ forecast_result = EmptyDict
    /\ attempted = <<>>
    /\ raised = {}
    /\ analysis_results = NoResults
    /\ gpt = ""
    /\ exc = ""
    /\ stdout = <<>>
    /\ result = EmptyDict

ApplyAssociations ==
    /\ pc = "call"
    /\ \E ms \in 1 .. MaxSupport :
          result' = [min_support |-> ms,
                     associations |-> analyze_product_associations(df, ms)]
    /\ pc' = "returned"
    /\ UNCHANGED <<file, df, stats, daily_sales, forecast_result, attempted, raised,
                   analysis_results, gpt, exc, stdout>>

NextAssoc == ApplyAssociations

SpecAssoc == InitAssoc /\ [][NextAssoc]_vars

ItemsIn(rows) == {rows[i].Item : i \in DOMAIN rows}

ItemCount(rows, x) == Cardinality({i \in DOMAIN rows : rows[i].Item = x})

(* The number of rows with Item = x in the transactions that contain a.    *)
CoCount(rows, a, x) ==
    LET with == {rows[i].Transaction : i \in {j \in DOMAIN rows : rows[j].Item = a}}
    IN Cardinality({i \in DOMAIN rows : rows[i].Item = x /\ rows[i].Transaction \in with})

CoItems(rows, a) == {x \in ItemsIn(rows) \ {a} : CoCount(rows, a, x) > 0}

ListedUnder(assoc, a) == IF a \in DOMAIN assoc THEN assoc[a] ELSE <<>>

(* The count reported for x under a: 0 when x is not listed.               *)
Reported(assoc, a, x) ==
    LET l == ListedUnder(assoc, a)
        at == {k \in DOMAIN l : l[k][1] = x}
    IN IF at = {} THEN 0 ELSE l[CHOOSE k \in at : TRUE][2]

ScenarioRows ==
    <<BasketRow(1, "A"), BasketRow(1, "B"), BasketRow(2, "A"), BasketRow(2, "B")>>

ScenarioAnswer == ("A" :> <<<<"B", 2>>>>) @@ ("B" :> <<<<"A", 2>>>>)

AmongMostFrequent(rows, a) ==
    Cardinality({y \in ItemsIn(rows) \ {a} : ItemCount(rows, y) >= ItemCount(rows, a)})
        < TopPopular

=============================================================================
